---- MODULE Spec2Model ----
(***************************************************************************)
(* Model of the claw firmware's stepper motion core: the stepper entity    *)
(* (stepper.h), its operations, the step generator and the estop interlock *)
(* (stepper.c), and the command helpers that reach them                    *)
(* (command_processor.c).                                                  *)
(*                                                                         *)
(* GPIO lines are modelled by the logic level last written to them (0/1);  *)
(* the estop input is the level the environment holds on the pin.          *)
(***************************************************************************)
EXTENDS Integers, Sequences, FiniteSets, TLC

(***************************************************************************)
(* Bounds of the model.  The firmware's position range (38400 steps), its  *)
(* steps per revolution (3200), its bump distance (800 steps) and its      *)
(* estop hold (100 polls) are scaled down, keeping their order             *)
(* bump < revolution < range; MaxPeriod bounds the step periods drawn.     *)
(* TICKS_PER_MS is the scaled 1000 / TIMER_INTERVAL_US (100 timer calls    *)
(* per coarse tick); MaxBacklog bounds the ticks left undrained.           *)
(* MAX_COMMAND_LENGTH is the scaled size of the line reader's buffer (50). *)
(* Every formula below is written against the names, not the numbers.      *)
(***************************************************************************)
MAX_STEPPER_POSITION == 3
STEPPER_STEPS_PER_REV == 2
STEPPER_BUMP_STEPS == 1
STEPPER_ESTOP_DEACTIVATE_DELAY_MS == 2
MaxPeriod == 5
TICKS_PER_MS == 2
MaxBacklog == 2
MAX_COMMAND_LENGTH == 4

(***************************************************************************)
(* Program constants (stepper.h, sys_timer.h).                             *)
(***************************************************************************)
TIMER_INTERVAL_US == 10
DEFAULT_STEPPER_PERIOD == 4
MIN_STEPPER_PERIOD == 4
MIN_STEPPER_POSITION == 0
STEPPER_DIRECTION_FORWARD == 1
STEPPER_DIRECTION_BACKWARD == 0
STEPPER_ESTOP_ACTIVE_LEVEL == 0
STEPPER_ESTOP_LED_PIN_ACTIVE_LEVEL == 1
STEPPER_ENABLE_LED_PIN_ACTIVE_LEVEL == 1
STEPPER_ENABLE_PIN_INVERTED == 1

Xor(a, b) == IF a = b THEN 0 ELSE 1

VARIABLES
    stepper,              \* stepper_state_t: the stepper entity
    step_timer,           \* static step_timer of process_stepper_movement
    function_initialized, \* static flag of process_stepper_movement
    extop_active_count,   \* static debounce counter of process_stepper_estop
    step_pin,             \* STEPPER_STEP_PIN output level
    dir_pin,              \* STEPPER_DIR_PIN output level
    enable_pin,           \* STEPPER_ENABLE_PIN output level
    enable_led_pin,       \* STEPPER_ENABLE_LED_PIN output level
    estop_led_pin,        \* STEPPER_ESTOP_LED_PIN output level
    estop_pin,            \* STEPPER_ESTOP_PIN input level (environment)
    ret,                  \* value returned by the last operation
    halted,               \* history: "fault" once a poll saw the input active
                          \*   during motion, "ticked" once a fine tick has run
                          \*   since, "none" again when a move is accepted
    seen_active,          \* history: a poll saw the input active and the input
                          \*   has stayed active since
    inactive_polls,       \* history: inactive polls since the last active poll
                          \*   (-1 before any fault, saturates at hold + 1)
    win,                  \* observer: a run of consecutive fine ticks
    called,               \* observer: the last call of the entity's interface
                          \*   (recorded in SpecApi only)
    printed,              \* the status reports the last operation printed
    ten_us_ticks_count,   \* sys_timer.c: fine ticks not yet drained
    ms_ticks_count,       \* sys_timer.c: coarse ticks not yet drained
    us_count,             \* static sub-counter of timer_callback
    pc,                   \* main: the position of the main loop
    reg,                  \* main: the counter value loaded by a decrement
                          \*   (0 once it is stored: the value is dead)
    fine_owed,            \* observer: fine ticks generated minus fine work
                          \*   units executed
    coarse_owed,          \* observer: the same for coarse ticks
    null_access,          \* observer: the last call went through a null
                          \*   entity reference before it returned
    high_dir,             \* observer: the direction output at the tick that
                          \*   drove the step output high in the pulse under
                          \*   way, -1 while the step output is low
                          \*   (recorded in SpecPulse only)
    irq,                  \* observer: the timer interrupts taken and the
                          \*   coarse ticks they generated
                          \*   (recorded in SpecTimer only)
    lock,                 \* static re-entrancy lock of process_stdin_input
    cmd_buffer,           \* static cmd_buffer of process_stdin_input
    cmd_buffer_index,     \* static cmd_buffer_index of process_stdin_input
    result                \* what the last call of process_stdin_input
                          \*   returned: "NULL" or "cmd_buffer"

entity == <<stepper>>
generator == <<step_timer, function_initialized, step_pin, dir_pin>>
interlock == <<extop_active_count, estop_led_pin>>
history == <<halted, seen_active, inactive_polls>>
vars == <<stepper, step_timer, function_initialized, extop_active_count,
          step_pin, dir_pin, enable_pin, enable_led_pin, estop_led_pin,
          estop_pin, ret, halted, seen_active, inactive_polls, win, called,
          printed, ten_us_ticks_count, ms_ticks_count, us_count, pc, reg,
          fine_owed, coarse_owed, null_access, high_dir, irq,
          lock, cmd_buffer, cmd_buffer_index, result>>

\* sys_timer.c's counters, and main's place in its loop
ticks == <<ten_us_ticks_count, ms_ticks_count, us_count>>
loop == <<pc, reg>>
\* the line reader's statics and its result
reader == <<lock, cmd_buffer, cmd_buffer_index, result>>
\* what only the main loop, the interrupt, the line reader and the
\* observers write
apart == <<called, ticks, loop, fine_owed, coarse_owed, null_access,
           high_dir, irq, reader>>

(***************************************************************************)
(* The observer's window: n fine ticks have run, with no other operation   *)
(* in between, since a state with position `start`, target `target` and    *)
(* period `period`; the observer watches for `limit` ticks.  n = -1: no    *)
(* window is open.                                                         *)
(***************************************************************************)
WinIdle == [n |-> -1, start |-> 0, target |-> 0, period |-> 0, limit |-> 0]

\* the observer's record of a call: the operation and its arguments
Call(op, a, b) == [op |-> op, a |-> a, b |-> b]

(***************************************************************************)
(* Text of a command argument: a sequence of one-character strings.        *)
(***************************************************************************)
IsDigit(c) == c \in {"0", "1", "2", "3", "4", "5", "6", "7", "8", "9"}

DigitVal(c) ==
    CASE c = "0" -> 0 [] c = "1" -> 1 [] c = "2" -> 2 [] c = "3" -> 3
      [] c = "4" -> 4 [] c = "5" -> 5 [] c = "6" -> 6 [] c = "7" -> 7
      [] c = "8" -> 8 [] c = "9" -> 9

RECURSIVE SkipSpace(_)
SkipSpace(s) == IF s # <<>> /\ Head(s) = " " THEN SkipSpace(Tail(s)) ELSE s

\* value of the leading run of digits of s, continuing from acc
RECURSIVE DigitRun(_, _)
DigitRun(s, acc) ==
    IF s # <<>> /\ IsDigit(Head(s))
    THEN DigitRun(Tail(s), 10 * acc + DigitVal(Head(s)))
    ELSE acc

RECURSIVE DropDigits(_)
DropDigits(s) == IF s # <<>> /\ IsDigit(Head(s)) THEN DropDigits(Tail(s)) ELSE s

\* atoi: leading blanks, an optional sign, then digits up to the first
\* character that is no digit; 0 when there is no digit at all.
atoi(text) ==
    LET s == SkipSpace(text)
        neg == s # <<>> /\ Head(s) = "-"
        body == IF s # <<>> /\ Head(s) \in {"-", "+"} THEN Tail(s) ELSE s
    IN  IF neg THEN 0 - DigitRun(body, 0) ELSE DigitRun(body, 0)

\* atof, in tenths: as atoi, plus one fractional digit after a '.'.
\* The argument texts of the model carry at most one fractional digit.
atof10(text) ==
    LET s == SkipSpace(text)
        neg == s # <<>> /\ Head(s) = "-"
        body == IF s # <<>> /\ Head(s) \in {"-", "+"} THEN Tail(s) ELSE s
        whole == DigitRun(body, 0)
        rest == DropDigits(body)
        frac == IF Len(rest) >= 2 /\ Head(rest) = "." /\ IsDigit(rest[2])
                THEN DigitVal(rest[2]) ELSE 0
        mag == 10 * whole + frac
    IN  IF neg THEN 0 - mag ELSE mag

\* round(num / den) for den > 0, halves away from zero, as round() of math.h
RoundDiv(num, den) ==
    IF num >= 0 THEN (2 * num + den) \div (2 * den)
    ELSE 0 - ((2 * (0 - num) + den) \div (2 * den))

(***************************************************************************)
(* stepper.c: the entity's operations, as functions of the entity.         *)
(***************************************************************************)
PositionInRange(p) ==
    ~(p < MIN_STEPPER_POSITION \/ p > MAX_STEPPER_POSITION)

\* stepper_init: the checks, and the entity it writes when they pass
StepperInitAccepts(initial_position, step_period) ==
    PositionInRange(initial_position) /\ ~(step_period <= 1)

\* faulty variant of StepperInit: the motion flag is left set
StepperInit_moving(initial_position, step_period) ==
    [current_position |-> initial_position,
     target_position  |-> initial_position,
     step_period      |-> step_period,
     moving           |-> TRUE,
     enabled          |-> FALSE]

StepperInit(initial_position, step_period) ==
    [current_position |-> initial_position,
     target_position  |-> initial_position,
     step_period      |-> step_period,
     moving           |-> FALSE,
     enabled          |-> FALSE]

\* faulty variant of SetTargetPosition: a request out of range is clipped
SetTargetPosition_clips(s, target_position) ==
    [s EXCEPT !.target_position =
                  IF target_position < MIN_STEPPER_POSITION
                  THEN MIN_STEPPER_POSITION
                  ELSE IF target_position > MAX_STEPPER_POSITION
                  THEN MAX_STEPPER_POSITION
                  ELSE target_position,
              !.moving = TRUE]

\* faulty variant of SetTargetPosition: a target equal to the position does
\* not set the motion flag
SetTargetPosition_no_wake(s, target_position) ==
    IF PositionInRange(target_position)
    THEN [s EXCEPT !.target_position = target_position,
                   !.moving = (target_position # s.current_position)]
    ELSE s

SetTargetPosition(s, target_position) ==
    IF PositionInRange(target_position)
    THEN [s EXCEPT !.target_position = target_position, !.moving = TRUE]
    ELSE s

StepPeriodAccepted(step_period_us) ==
    ~(step_period_us < MIN_STEPPER_PERIOD * TIMER_INTERVAL_US)

\* faulty variant of SetStepPeriod: a new period ends the move
SetStepPeriod_ends_move(s, step_period_us) ==
    IF StepPeriodAccepted(step_period_us)
    THEN [s EXCEPT !.step_period = step_period_us \div TIMER_INTERVAL_US,
                   !.moving = FALSE]
    ELSE s

SetStepPeriod(s, step_period_us) ==
    IF StepPeriodAccepted(step_period_us)
    THEN [s EXCEPT !.step_period = step_period_us \div TIMER_INTERVAL_US]
    ELSE s

\* faulty variant of Stop: the motor is disabled as well
Stop_disables(s) ==
    [s EXCEPT !.target_position = s.current_position, !.moving = FALSE,
              !.enabled = FALSE]

\* faulty variant of Stop: the target is left where the move was heading
Stop_keeps_target(s) == [s EXCEPT !.moving = FALSE]

Stop(s) ==
    [s EXCEPT !.target_position = s.current_position, !.moving = FALSE]

Enable(s, enable) == [s EXCEPT !.enabled = enable]

\* level stepper_enable puts on STEPPER_ENABLE_PIN
EnablePinLevel(enable) ==
    Xor(IF enable THEN 1 ELSE 0, STEPPER_ENABLE_PIN_INVERTED)

(***************************************************************************)
(* stepper.c: the step generator's decisions.                              *)
(***************************************************************************)
Direction(s) ==
    IF s.target_position > s.current_position
    THEN STEPPER_DIRECTION_FORWARD
    ELSE STEPPER_DIRECTION_BACKWARD

\* faulty variant of PulseHigh: the output is driven high one tick late
PulseHigh_late(timer, period) == timer = period \div 2 + 1

PulseHigh(timer, period) == timer = period \div 2

\* faulty variant of StepDue: the step is taken one tick late
StepDue_late(timer, period) == timer > period

StepDue(timer, period) == timer >= period

\* faulty variant of Advance: the arrival at the target is not noticed
Advance_never_arrives(s, direction) ==
    [s EXCEPT !.current_position =
         IF direction = STEPPER_DIRECTION_FORWARD THEN @ + 1 ELSE @ - 1]

\* one completed pulse: move one unit, and stop at the target
Advance(s, direction) ==
    LET moved == [s EXCEPT !.current_position =
                      IF direction = STEPPER_DIRECTION_FORWARD
                      THEN @ + 1 ELSE @ - 1]
    IN  IF moved.current_position = moved.target_position
        THEN [moved EXCEPT !.moving = FALSE]
        ELSE moved

(***************************************************************************)
(* stepper.c: the estop interlock's decisions.                             *)
(***************************************************************************)
EstopActive(level) == level = STEPPER_ESTOP_ACTIVE_LEVEL

\* faulty variant of EstopTrip: the target is left where the move was heading
EstopTrip_keeps_target(s) == [Enable(s, FALSE) EXCEPT !.moving = FALSE]

\* faulty variant of EstopTrip: the motor is disabled but the move goes on
EstopTrip_keeps_moving(s) == Enable(s, FALSE)

\* what an active estop does to the entity
EstopTrip(s) ==
    [Enable(s, FALSE) EXCEPT !.moving = FALSE,
                             !.target_position = s.current_position]

\* faulty variant of EstopHold: the hold ends one poll early
EstopHold_short(count) == count > 1

\* the hold after the input went inactive is still running
EstopHold(count) == count > 0

\* faulty variant of EstopClear: the motor is enabled again when the hold runs out
EstopClear_reenables(s) == Enable(s, TRUE)

\* what an inactive estop does to the entity once the hold has run out
EstopClear(s) == s

(***************************************************************************)
(* Frames.                                                                 *)
(***************************************************************************)
\* an operation on the entity alone; it ends any run of consecutive ticks
EntityOp ==
    /\ win' = WinIdle
    /\ printed' = <<>>
    /\ UNCHANGED <<generator, interlock, enable_led_pin, estop_pin,
                   seen_active, inactive_polls>>

\* a move was accepted: the halt left by the last fault is over
Accepted(ok) == halted' = IF ok THEN "none" ELSE halted

(***************************************************************************)
(* stepper.c: the public operations.                                       *)
(***************************************************************************)
\* stepper_init returns before its first write when a check fails; it
\* does not touch the statics of the step generator or of the interlock
stepper_init(initial_position, step_period) ==
    /\ IF StepperInitAccepts(initial_position, step_period)
       THEN /\ stepper' = StepperInit(initial_position, step_period)
            /\ enable_pin' = EnablePinLevel(FALSE)
            /\ enable_led_pin' = STEPPER_ENABLE_LED_PIN_ACTIVE_LEVEL
            /\ estop_led_pin' = STEPPER_ESTOP_ACTIVE_LEVEL
            /\ ret' = TRUE
       ELSE /\ ret' = FALSE
            /\ UNCHANGED <<stepper, enable_pin, enable_led_pin, estop_led_pin>>
    /\ win' = WinIdle
    /\ printed' = <<>>
    /\ UNCHANGED <<generator, extop_active_count, estop_pin, history>>

stepper_set_target_position(target_position) ==
    /\ stepper' = SetTargetPosition(stepper, target_position)
    /\ ret' = PositionInRange(target_position)
    /\ Accepted(PositionInRange(target_position))
    /\ EntityOp
    /\ UNCHANGED enable_pin

stepper_set_step_period(step_period_us) ==
    /\ stepper' = SetStepPeriod(stepper, step_period_us)
    /\ ret' = StepPeriodAccepted(step_period_us)
    /\ EntityOp
    /\ UNCHANGED <<enable_pin, halted>>

stepper_stop ==
    /\ stepper' = Stop(stepper)
    /\ ret' = TRUE
    /\ EntityOp
    /\ UNCHANGED <<enable_pin, halted>>

stepper_enable(enable) ==
    /\ enable_pin' = EnablePinLevel(enable)
    /\ stepper' = Enable(stepper, enable)
    /\ ret' = TRUE
    /\ EntityOp
    /\ UNCHANGED halted

process_stepper_enabled_led ==
    /\ enable_led_pin' =
         IF stepper.enabled
         THEN STEPPER_ENABLE_LED_PIN_ACTIVE_LEVEL
         ELSE Xor(STEPPER_ENABLE_LED_PIN_ACTIVE_LEVEL, 1)
    /\ ret' = TRUE
    /\ win' = WinIdle
    /\ printed' = <<>>
    /\ UNCHANGED <<stepper, generator, interlock, enable_pin, estop_pin, history>>

(***************************************************************************)
(* stepper.c: the step generator, one call per fine tick.                  *)
(***************************************************************************)
\* the observer counts the tick; a window that has run out is closed
WinTick ==
    win' = IF win.n < 0 THEN win
           ELSE IF win.n < win.limit THEN [win EXCEPT !.n = @ + 1]
           ELSE WinIdle

process_stepper_movement ==
    LET direction == Direction(stepper)
        \* the first call drives both outputs low before anything else
        step0 == IF function_initialized THEN step_pin ELSE 0
        timer == step_timer + 1
    IN  /\ function_initialized' = TRUE
        /\ dir_pin' = direction
        /\ IF stepper.moving
           THEN IF PulseHigh(timer, stepper.step_period)
                THEN /\ step_pin' = 1
                     /\ step_timer' = timer
                     /\ stepper' = stepper
                ELSE IF StepDue(timer, stepper.step_period)
                THEN /\ step_pin' = 0
                     /\ step_timer' = 0
                     /\ stepper' = Advance(stepper, direction)
                ELSE /\ step_pin' = step0
                     /\ step_timer' = timer
                     /\ stepper' = stepper
           ELSE /\ step_pin' = 0
                /\ step_timer' = 0
                /\ stepper' = stepper
        /\ ret' = stepper'.moving
        /\ WinTick
        /\ printed' = <<>>
        /\ halted' = IF halted = "none" THEN "none" ELSE "ticked"
        /\ UNCHANGED <<interlock, enable_pin, enable_led_pin, estop_pin,
                       seen_active, inactive_polls>>

(***************************************************************************)
(* stepper.c: the estop interlock, one call per poll.                      *)
(***************************************************************************)
process_stepper_estop ==
    /\ IF EstopActive(estop_pin)
       THEN /\ stepper' = EstopTrip(stepper)
            /\ enable_pin' = EnablePinLevel(FALSE)
            /\ estop_led_pin' = STEPPER_ESTOP_LED_PIN_ACTIVE_LEVEL
            /\ extop_active_count' = STEPPER_ESTOP_DEACTIVATE_DELAY_MS
            /\ ret' = TRUE
            /\ halted' = IF stepper.moving THEN "fault" ELSE halted
            /\ seen_active' = TRUE
            /\ inactive_polls' = 0
       ELSE /\ IF EstopHold(extop_active_count)
               THEN /\ extop_active_count' = extop_active_count - 1
                    /\ estop_led_pin' = STEPPER_ESTOP_LED_PIN_ACTIVE_LEVEL
                    /\ stepper' = stepper
                    /\ ret' = TRUE
               ELSE /\ estop_led_pin' = Xor(STEPPER_ESTOP_LED_PIN_ACTIVE_LEVEL, 1)
                    /\ stepper' = EstopClear(stepper)
                    /\ ret' = FALSE
                    /\ UNCHANGED extop_active_count
            /\ inactive_polls' =
                 IF inactive_polls < 0
                    \/ inactive_polls > STEPPER_ESTOP_DEACTIVATE_DELAY_MS
                 THEN inactive_polls
                 ELSE inactive_polls + 1
            /\ UNCHANGED <<enable_pin, halted, seen_active>>
    /\ win' = WinIdle
    /\ printed' = <<>>
    /\ UNCHANGED <<generator, enable_led_pin, estop_pin>>

stepper_is_estop_active ==
    /\ ret' = EstopActive(estop_pin)
    /\ win' = WinIdle
    /\ printed' = <<>>
    /\ UNCHANGED <<stepper, generator, interlock, enable_pin, enable_led_pin,
                   estop_pin, history>>

\* the environment drives the estop input
EstopInput(level) ==
    /\ estop_pin # level
    /\ estop_pin' = level
    /\ seen_active' = (seen_active /\ EstopActive(level))
    /\ UNCHANGED <<stepper, generator, interlock, enable_pin, enable_led_pin,
                   ret, halted, inactive_polls, win, printed>>

(***************************************************************************)
(* command_processor.c: the command helpers.  `cmd` is the text that       *)
(* follows the command keyword.                                            *)
(***************************************************************************)
\* faulty variant of Snapshot: the period is printed in ticks
Snapshot_in_ticks(s) ==
    [current_position |-> s.current_position,
     target_position  |-> s.target_position,
     step_period_us   |-> s.step_period,
     moving           |-> s.moving,
     enabled          |-> s.enabled]

\* the fields command_get_stepper_status prints; the period in microseconds
Snapshot(s) ==
    [current_position |-> s.current_position,
     target_position  |-> s.target_position,
     step_period_us   |-> s.step_period * TIMER_INTERVAL_US,
     moving           |-> s.moving,
     enabled          |-> s.enabled]

command_get_stepper_status ==
    /\ printed' = <<Snapshot(stepper)>>
    /\ ret' = TRUE
    /\ win' = WinIdle
    /\ UNCHANGED <<stepper, generator, interlock, enable_pin, enable_led_pin,
                   estop_pin, history>>

command_claw_set_position(cmd) ==
    LET position == atof10(cmd)          \* in tenths of a percent
        new_stepper_position == RoundDiv(position * MAX_STEPPER_POSITION, 1000)
        ok == stepper.enabled /\ ~(position < 0 \/ position > 1000)
    IN  /\ stepper' = IF ok
                      THEN [SetTargetPosition(stepper, new_stepper_position)
                               EXCEPT !.moving = TRUE]
                      ELSE stepper
        /\ ret' = ok
        /\ Accepted(ok)
        /\ EntityOp
        /\ UNCHANGED enable_pin

command_set_stepper_period(cmd) ==
    LET new_step_period == atoi(cmd)
    IN  /\ stepper' = SetStepPeriod(stepper, new_step_period)
        /\ ret' = StepPeriodAccepted(new_step_period)
        /\ EntityOp
        /\ UNCHANGED <<enable_pin, halted>>

\* faulty variant of command_set_stepper_zero: the move under way goes on
command_set_stepper_zero_keeps_moving ==
    /\ stepper' = [stepper EXCEPT !.current_position = 0,
                                  !.target_position = 0]
    /\ ret' = TRUE
    /\ EntityOp
    /\ UNCHANGED <<enable_pin, halted>>

command_set_stepper_zero ==
    /\ stepper' = [stepper EXCEPT !.current_position = 0,
                                  !.target_position = 0,
                                  !.moving = FALSE]
    /\ ret' = TRUE
    /\ EntityOp
    /\ UNCHANGED <<enable_pin, halted>>

\* faulty variant of MoveTo: the move is accepted while disabled
MoveTo_while_disabled(target_position) ==
    LET ok == PositionInRange(target_position)
    IN  /\ stepper' = IF ok
                      THEN [SetTargetPosition(stepper, target_position)
                               EXCEPT !.moving = TRUE]
                      ELSE stepper
        /\ ret' = ok
        /\ Accepted(ok)
        /\ EntityOp
        /\ UNCHANGED enable_pin

\* the tail shared by the absolute, relative and rotations moves
MoveTo(target_position) ==
    LET ok == stepper.enabled /\ PositionInRange(target_position)
    IN  /\ stepper' = IF ok
                      THEN [SetTargetPosition(stepper, target_position)
                               EXCEPT !.moving = TRUE]
                      ELSE stepper
        /\ ret' = ok
        /\ Accepted(ok)
        /\ EntityOp
        /\ UNCHANGED enable_pin

command_move_stepper_absolute(cmd) == MoveTo(atoi(cmd))

command_move_stepper_relative(cmd) ==
    MoveTo(stepper.current_position + atoi(cmd))

command_move_stepper_rotations(cmd) ==
    LET relative_steps == RoundDiv(atof10(cmd) * STEPPER_STEPS_PER_REV, 10)
    IN  MoveTo(stepper.current_position + relative_steps)

\* faulty variant of command_move_stepper_bump_down: near the lower bound
\* the target is set below the range instead of relocating the position
command_move_stepper_bump_down_no_relocation ==
    /\ stepper' =
         IF ~stepper.enabled THEN stepper
         ELSE [stepper EXCEPT
                   !.target_position = stepper.current_position - STEPPER_BUMP_STEPS,
                   !.moving = TRUE]
    /\ ret' = stepper.enabled
    /\ Accepted(stepper.enabled)
    /\ EntityOp
    /\ UNCHANGED enable_pin

command_move_stepper_bump_down ==
    /\ stepper' =
         IF ~stepper.enabled THEN stepper
         ELSE IF stepper.current_position > STEPPER_BUMP_STEPS
         THEN [stepper EXCEPT
                   !.target_position = stepper.current_position - STEPPER_BUMP_STEPS,
                   !.moving = TRUE]
         ELSE [stepper EXCEPT !.current_position = STEPPER_BUMP_STEPS,
                              !.target_position = 0,
                              !.moving = TRUE]
    /\ ret' = stepper.enabled
    /\ Accepted(stepper.enabled)
    /\ EntityOp
    /\ UNCHANGED enable_pin

command_stop_stepper ==
    /\ stepper' = Stop(stepper)
    /\ ret' = TRUE
    /\ EntityOp
    /\ UNCHANGED <<enable_pin, halted>>

\* process_command: the enable_stepper and disable_stepper commands
command_enable_stepper == stepper_enable(TRUE)

command_disable_stepper == stepper_enable(FALSE)

(***************************************************************************)
(* The inputs the model draws.                                             *)
(***************************************************************************)
DigitChar(d) == <<"0", "1", "2", "3", "4", "5", "6", "7", "8", "9">>[d + 1]

RECURSIVE Itoa(_)
Itoa(n) ==
    IF n < 0 THEN <<"-">> \o Itoa(0 - n)
    ELSE IF n < 10 THEN <<DigitChar(n)>>
    ELSE Itoa(n \div 10) \o <<DigitChar(n % 10)>>

Malformed == {<<>>, <<"x">>, <<"2", "x">>}

Positions == (MIN_STEPPER_POSITION - 1) .. (MAX_STEPPER_POSITION + 1)
Periods == (MIN_STEPPER_PERIOD - 1) .. MaxPeriod
PeriodsUs == {TIMER_INTERVAL_US * k : k \in Periods}
               \cup {TIMER_INTERVAL_US * MIN_STEPPER_PERIOD + 5}

AbsoluteArgs == {Itoa(n) : n \in {MIN_STEPPER_POSITION - 1,
                                  MAX_STEPPER_POSITION - 1,
                                  MAX_STEPPER_POSITION + 1}} \cup Malformed
RelativeArgs == {Itoa(n) : n \in {-1, 2}} \cup {<<"x">>}
RotationArgs == {<<"1">>, <<"-", "0", ".", "5">>, <<"x">>}
PercentArgs == {<<"1", "0", "0">>, <<"1", "0", "1">>, <<"1", "2", ".", "5">>,
                <<"x">>}
PeriodArgs == {Itoa(TIMER_INTERVAL_US * MIN_STEPPER_PERIOD + 5),
               Itoa(TIMER_INTERVAL_US * MIN_STEPPER_PERIOD - 1), <<"x">>}

(***************************************************************************)
(* The program after start-up: main has called                             *)
(* stepper_init(&stepper, 0, DEFAULT_STEPPER_PERIOD); no tick has run.     *)
(***************************************************************************)
AfterInit(initial_position, step_period) ==
    /\ stepper = StepperInit(initial_position, step_period)
    /\ enable_pin = EnablePinLevel(FALSE)
    /\ enable_led_pin = STEPPER_ENABLE_LED_PIN_ACTIVE_LEVEL
    /\ estop_led_pin = STEPPER_ESTOP_ACTIVE_LEVEL
    /\ estop_pin \in {0, 1}
    /\ step_timer = 0
    /\ function_initialized = FALSE
    /\ extop_active_count = 0
    /\ step_pin = 0
    /\ dir_pin = 0
    /\ ret = TRUE
    /\ halted = "none"
    /\ seen_active = FALSE
    /\ inactive_polls = -1
    /\ win = WinIdle
    /\ called = Call("stepper_init", initial_position, step_period)
    /\ printed = <<>>
    /\ ten_us_ticks_count = 0
    /\ ms_ticks_count = 0
    /\ us_count = 0
    /\ pc = "ms_test"
    /\ reg = 0
    /\ fine_owed = 0
    /\ coarse_owed = 0
    /\ null_access = FALSE
    /\ high_dir = -1
    /\ irq = [n |-> 0, ms |-> 0]
    /\ lock = FALSE
    /\ cmd_buffer = [i \in 0 .. MAX_COMMAND_LENGTH - 1 |-> 0]
    /\ cmd_buffer_index = 0
    /\ result = "NULL"

Init == AfterInit(0, DEFAULT_STEPPER_PERIOD)

Next ==
    \/ (\E p \in Positions : stepper_set_target_position(p)) /\ UNCHANGED apart
    \/ (\E us \in PeriodsUs : stepper_set_step_period(us)) /\ UNCHANGED apart
    \/ (stepper_stop) /\ UNCHANGED apart
    \/ (\E b \in BOOLEAN : stepper_enable(b)) /\ UNCHANGED apart
    \/ (process_stepper_enabled_led) /\ UNCHANGED apart
    \/ (process_stepper_movement) /\ UNCHANGED apart
    \/ (process_stepper_estop) /\ UNCHANGED apart
    \/ (stepper_is_estop_active) /\ UNCHANGED apart
    \/ (\E level \in {0, 1} : EstopInput(level)) /\ UNCHANGED apart
    \/ (\E cmd \in PercentArgs : command_claw_set_position(cmd)) /\ UNCHANGED apart
    \/ (\E cmd \in PeriodArgs : command_set_stepper_period(cmd)) /\ UNCHANGED apart
    \/ (command_set_stepper_zero) /\ UNCHANGED apart
    \/ (\E cmd \in AbsoluteArgs : command_move_stepper_absolute(cmd)) /\ UNCHANGED apart
    \/ (\E cmd \in RelativeArgs : command_move_stepper_relative(cmd)) /\ UNCHANGED apart
    \/ (\E cmd \in RotationArgs : command_move_stepper_rotations(cmd)) /\ UNCHANGED apart
    \/ (command_move_stepper_bump_down) /\ UNCHANGED apart
    \/ (command_stop_stepper) /\ UNCHANGED apart
    \/ (command_enable_stepper) /\ UNCHANGED apart
    \/ (command_disable_stepper) /\ UNCHANGED apart

Spec == Init /\ [][Next]_vars

(***************************************************************************)
(* The status report asked for at any point of a move, of a period change  *)
(* and of the interlock's fault and hold.                                  *)
(***************************************************************************)
NextStatus ==
    \/ command_get_stepper_status /\ UNCHANGED apart
    \/ (\E p \in Positions : stepper_set_target_position(p)) /\ UNCHANGED apart
    \/ (\E us \in PeriodsUs : stepper_set_step_period(us)) /\ UNCHANGED apart
    \/ (\E b \in BOOLEAN : stepper_enable(b)) /\ UNCHANGED apart
    \/ process_stepper_movement /\ UNCHANGED apart
    \/ process_stepper_estop /\ UNCHANGED apart
    \/ (\E level \in {0, 1} : EstopInput(level)) /\ UNCHANGED apart

SpecStatus == Init /\ [][NextStatus]_vars

(***************************************************************************)
(* The motion operations alone, watched by an observer that may open a     *)
(* window of one pulse period at any state in which the entity is moving.  *)
(***************************************************************************)
StartWindow(limit) ==
    /\ win.n = -1
    /\ stepper.moving
    /\ win' = [n |-> 0,
               start  |-> stepper.current_position,
               target |-> stepper.target_position,
               period |-> stepper.step_period,
               limit  |-> limit]
    /\ UNCHANGED <<stepper, generator, interlock, enable_pin, enable_led_pin,
                   estop_pin, ret, history, printed>>

NextObs ==
    \/ (\E p \in Positions : stepper_set_target_position(p)) /\ UNCHANGED apart
    \/ (\E us \in PeriodsUs : stepper_set_step_period(us)) /\ UNCHANGED apart
    \/ (stepper_stop) /\ UNCHANGED apart
    \/ (\E b \in BOOLEAN : stepper_enable(b)) /\ UNCHANGED apart
    \/ (process_stepper_movement) /\ UNCHANGED apart
    \/ (command_set_stepper_zero) /\ UNCHANGED apart
    \/ (\E cmd \in AbsoluteArgs : command_move_stepper_absolute(cmd)) /\ UNCHANGED apart
    \/ (\E cmd \in RelativeArgs : command_move_stepper_relative(cmd)) /\ UNCHANGED apart
    \/ (command_move_stepper_bump_down) /\ UNCHANGED apart
    \/ (StartWindow(stepper.step_period)) /\ UNCHANGED apart

SpecObs == Init /\ [][NextObs]_vars

(***************************************************************************)
(* The start-up scenario: stepper_init(p0, T) on the freshly started       *)
(* program, stepper_enable(true), stepper_set_target_position(p1) with     *)
(* p1 # p0, then fine ticks only, counted by the observer up to            *)
(* |p1 - p0| * T.                                                          *)
(***************************************************************************)
Distance(s) ==
    IF s.target_position >= s.current_position
    THEN s.target_position - s.current_position
    ELSE s.current_position - s.target_position

InitScenario ==
    \E p0 \in MIN_STEPPER_POSITION .. MAX_STEPPER_POSITION :
        \E T \in 2 .. MaxPeriod :
            /\ StepperInitAccepts(p0, T)
            /\ AfterInit(p0, T)

ScEnable ==
    /\ ~stepper.enabled /\ ~stepper.moving /\ win.n = -1
    /\ stepper_enable(TRUE)

ScSetTarget ==
    /\ stepper.enabled /\ ~stepper.moving /\ win.n = -1
    /\ \E p1 \in MIN_STEPPER_POSITION .. MAX_STEPPER_POSITION :
           /\ p1 # stepper.current_position
           /\ stepper_set_target_position(p1)

ScObserve == StartWindow(Distance(stepper) * stepper.step_period)

ScTick ==
    /\ win.n >= 0 /\ win.n < win.limit
    /\ process_stepper_movement

NextScenario ==
    \/ ScEnable /\ UNCHANGED apart
    \/ ScSetTarget /\ UNCHANGED apart
    \/ ScObserve /\ UNCHANGED apart
    \/ ScTick /\ UNCHANGED apart

SpecScenario == InitScenario /\ [][NextScenario]_vars

(***************************************************************************)
(* sys_timer.c and claw.c: the timer interrupt and the main loop.          *)
(* `ms_ticks_count--` and `ten_us_ticks_count--` are a load and a store of *)
(* a volatile int; the interrupt may run between the two.                  *)
(***************************************************************************)
\* faulty variant of CoarseDue: the coarse tick comes one interrupt early
CoarseDue_early(count) == count >= TICKS_PER_MS - 1

\* if (us_count >= (1000 / TIMER_INTERVAL_US))
CoarseDue(count) == count >= TICKS_PER_MS

\* faulty variant of timer_callback: the interrupt also runs the step
\* generator
timer_callback_steps ==
    /\ ten_us_ticks_count < MaxBacklog
    /\ ms_ticks_count < MaxBacklog
    /\ fine_owed <= MaxBacklog
    /\ coarse_owed <= MaxBacklog
    /\ IF CoarseDue(us_count + 1)
       THEN /\ us_count' = 0
            /\ ms_ticks_count' = ms_ticks_count + 1
            /\ coarse_owed' = coarse_owed + 1
       ELSE /\ us_count' = us_count + 1
            /\ UNCHANGED <<ms_ticks_count, coarse_owed>>
    /\ ten_us_ticks_count' = ten_us_ticks_count + 1
    /\ fine_owed' = fine_owed + 1
    /\ process_stepper_movement
    /\ UNCHANGED <<loop, called, null_access, high_dir, reader>>

timer_callback ==
    /\ ten_us_ticks_count < MaxBacklog
    /\ ms_ticks_count < MaxBacklog
    /\ fine_owed <= MaxBacklog
    /\ coarse_owed <= MaxBacklog
    /\ IF CoarseDue(us_count + 1)
       THEN /\ us_count' = 0
            /\ ms_ticks_count' = ms_ticks_count + 1
            /\ coarse_owed' = coarse_owed + 1
       ELSE /\ us_count' = us_count + 1
            /\ UNCHANGED <<ms_ticks_count, coarse_owed>>
    /\ ten_us_ticks_count' = ten_us_ticks_count + 1
    /\ fine_owed' = fine_owed + 1
    /\ UNCHANGED <<stepper, generator, interlock, enable_pin, enable_led_pin,
                   estop_pin, ret, history, win, printed, loop, called,
                   null_access, high_dir, reader>>

\* everything but the tick counters and the loop's own position
machine == <<stepper, generator, interlock, enable_pin, enable_led_pin,
             estop_pin, ret, history, win, printed>>

\* process_command: the command that follows the keyword it recognises
process_command ==
    \/ \E cmd \in PercentArgs : command_claw_set_position(cmd)
    \/ \E cmd \in PeriodArgs : command_set_stepper_period(cmd)
    \/ command_set_stepper_zero
    \/ \E cmd \in AbsoluteArgs : command_move_stepper_absolute(cmd)
    \/ \E cmd \in RelativeArgs : command_move_stepper_relative(cmd)
    \/ \E cmd \in RotationArgs : command_move_stepper_rotations(cmd)
    \/ command_move_stepper_bump_down
    \/ command_stop_stepper
    \/ command_get_stepper_status
    \/ command_enable_stepper
    \/ command_disable_stepper

\* if(ms_ticks_count > 0)
MsTest ==
    /\ pc = "ms_test"
    /\ pc' = IF ms_ticks_count > 0 THEN "ms_load" ELSE "us_test"
    /\ UNCHANGED <<machine, ticks, reg, fine_owed, coarse_owed, called,
                   null_access, high_dir, irq, reader>>

\* ms_ticks_count--: the load
MsLoad ==
    /\ pc = "ms_load"
    /\ reg' = ms_ticks_count
    /\ pc' = "ms_store"
    /\ UNCHANGED <<machine, ticks, fine_owed, coarse_owed, called,
                   null_access, high_dir, irq, reader>>

\* ms_ticks_count--: the store
MsStore ==
    /\ pc = "ms_store"
    /\ ms_ticks_count' = reg - 1
    /\ reg' = 0
    /\ pc' = "ms_work"
    /\ UNCHANGED <<machine, ten_us_ticks_count, us_count, fine_owed,
                   coarse_owed, called, null_access, high_dir, irq, reader>>

\* the coarse tick's work: process_led_tick, process_stdin_input and, when
\* a line is complete, process_command
MsWork ==
    /\ pc = "ms_work"
    /\ pc' = "us_test"
    /\ coarse_owed' = coarse_owed - 1
    /\ \/ UNCHANGED machine
       \/ process_command
    /\ UNCHANGED <<ticks, reg, fine_owed, called, null_access, high_dir, irq, reader>>

\* if(ten_us_ticks_count > 0)
UsTest ==
    /\ pc = "us_test"
    /\ pc' = IF ten_us_ticks_count > 0 THEN "us_load" ELSE "ms_test"
    /\ UNCHANGED <<machine, ticks, reg, fine_owed, coarse_owed, called,
                   null_access, high_dir, irq, reader>>

\* ten_us_ticks_count--: the load
UsLoad ==
    /\ pc = "us_load"
    /\ reg' = ten_us_ticks_count
    /\ pc' = "us_store"
    /\ UNCHANGED <<machine, ticks, fine_owed, coarse_owed, called,
                   null_access, high_dir, irq, reader>>

\* ten_us_ticks_count--: the store
UsStore ==
    /\ pc = "us_store"
    /\ ten_us_ticks_count' = reg - 1
    /\ reg' = 0
    /\ pc' = "us_work"
    /\ UNCHANGED <<machine, ms_ticks_count, us_count, fine_owed,
                   coarse_owed, called, null_access, high_dir, irq, reader>>

\* the fine tick's work: if(stepper.moving) process_stepper_movement
UsWork ==
    /\ pc = "us_work"
    /\ pc' = "ms_test"
    /\ fine_owed' = fine_owed - 1
    /\ IF stepper.moving
       THEN process_stepper_movement
       ELSE UNCHANGED machine
    /\ UNCHANGED <<ticks, reg, coarse_owed, called, null_access, high_dir, irq, reader>>

NextMain ==
    \/ timer_callback /\ UNCHANGED irq
    \/ MsTest \/ MsLoad \/ MsStore \/ MsWork
    \/ UsTest \/ UsLoad \/ UsStore \/ UsWork

SpecMain == Init /\ [][NextMain]_vars

(***************************************************************************)
(* The timer interrupt counted: the main loop of claw.c drains the         *)
(* counters while the observer counts the interrupts taken and the coarse  *)
(* ticks they add, over a little more than two coarse periods.             *)
(***************************************************************************)
MaxInterrupts == 2 * TICKS_PER_MS + 1

TimerTick ==
    /\ irq.n < MaxInterrupts
    /\ timer_callback
    /\ irq' = [n  |-> irq.n + 1,
               ms |-> irq.ms + (ms_ticks_count' - ms_ticks_count)]

NextTimer ==
    \/ TimerTick
    \/ MsTest \/ MsLoad \/ MsStore \/ MsWork
    \/ UsTest \/ UsLoad \/ UsStore \/ UsWork

SpecTimer == Init /\ [][NextTimer]_vars

(***************************************************************************)
(* The entity's interface called in any order on any contents, stepper_init *)
(* included, with the step generator running; the observer records the    *)
(* calls that take arguments.                                              *)
(***************************************************************************)
\* rejected, accepted below MIN_STEPPER_PERIOD, accepted above it
InitPeriods == {1, MIN_STEPPER_PERIOD - 1, MaxPeriod}

NextApi ==
    \/ \E p \in Positions : \E T \in InitPeriods :
           /\ stepper_init(p, T)
           /\ called' = Call("stepper_init", p, T)
           /\ UNCHANGED <<ticks, loop, fine_owed, coarse_owed, null_access, high_dir, irq, reader>>
    \/ \E p \in Positions :
           /\ stepper_set_target_position(p)
           /\ called' = Call("stepper_set_target_position", p, 0)
           /\ UNCHANGED <<ticks, loop, fine_owed, coarse_owed, null_access, high_dir, irq, reader>>
    \/ \E us \in PeriodsUs :
           /\ stepper_set_step_period(us)
           /\ called' = Call("stepper_set_step_period", us, 0)
           /\ UNCHANGED <<ticks, loop, fine_owed, coarse_owed, null_access, high_dir, irq, reader>>
    \/ /\ stepper_stop
       /\ called' = Call("other", 0, 0)
       /\ UNCHANGED <<ticks, loop, fine_owed, coarse_owed, null_access, high_dir, irq, reader>>
    \/ \E b \in BOOLEAN :
           /\ stepper_enable(b)
           /\ called' = Call("other", 0, 0)
           /\ UNCHANGED <<ticks, loop, fine_owed, coarse_owed, null_access, high_dir, irq, reader>>
    \/ /\ process_stepper_movement
       /\ called' = Call("other", 0, 0)
       /\ UNCHANGED <<ticks, loop, fine_owed, coarse_owed, null_access, high_dir, irq, reader>>
    \/ /\ command_get_stepper_status
       /\ called' = Call("other", 0, 0)
       /\ UNCHANGED <<ticks, loop, fine_owed, coarse_owed, null_access, high_dir, irq, reader>>
    \/ \E cmd \in PeriodArgs :
           /\ command_set_stepper_period(cmd)
           /\ called' = Call("command_set_stepper_period", atoi(cmd), 0)
           /\ UNCHANGED <<ticks, loop, fine_owed, coarse_owed, null_access, high_dir, irq, reader>>

\* the estop input plays no part here: it rests at its pulled-up level
InitApi == Init /\ ~EstopActive(estop_pin)

SpecApi == InitApi /\ [][NextApi]_vars

(***************************************************************************)
(* The operations called with a null entity reference.                     *)
(***************************************************************************)
NullOps ==
    {"stepper_init", "stepper_set_target_position", "stepper_set_step_period",
     "stepper_stop", "stepper_enable", "stepper_is_estop_active",
     "process_stepper_estop", "process_stepper_enabled_led",
     "process_stepper_movement",
     "command_get_stepper_status", "command_claw_set_position",
     "command_set_stepper_period", "command_set_stepper_zero",
     "command_move_stepper_absolute", "command_move_stepper_relative",
     "command_move_stepper_rotations", "command_move_stepper_bump_down",
     "command_stop_stepper"}

\* the operations that read stepper->current_position above their
\* `stepper == NULL` test
ReadsBeforeNullTest(op) ==
    op \in {"command_move_stepper_relative", "command_move_stepper_rotations"}

\* A call with stepper == NULL.  Every operation returns false at its null
\* test; process_stepper_movement has initialised its outputs by then.  A
\* read through the null reference is undefined: the build may return
\* false at the test that follows or, with the test removed, go on, so the
\* result is either value; the entity itself is out of the call's reach.
null_call(op) ==
    /\ null_access' = ReadsBeforeNullTest(op)
    /\ ret' \in IF ReadsBeforeNullTest(op) THEN BOOLEAN ELSE {FALSE}
    /\ IF op = "process_stepper_movement"
       THEN /\ function_initialized' = TRUE
            /\ step_pin' = IF function_initialized THEN step_pin ELSE 0
            /\ dir_pin' = IF function_initialized THEN dir_pin ELSE 0
            /\ UNCHANGED step_timer
       ELSE UNCHANGED generator
    /\ called' = Call(op, 0, 0)
    /\ win' = WinIdle
    /\ printed' = <<>>
    /\ UNCHANGED <<stepper, interlock, enable_pin, enable_led_pin, estop_pin,
                   history, ticks, loop, fine_owed, coarse_owed, high_dir,
                   irq, reader>>

NextNull ==
    \/ \E op \in NullOps : null_call(op)
    \/ \E p \in Positions :
           /\ stepper_set_target_position(p)
           /\ called' = Call("other", 0, 0)
           /\ UNCHANGED <<ticks, loop, fine_owed, coarse_owed, null_access, high_dir, irq, reader>>
    \/ \E b \in BOOLEAN :
           /\ stepper_enable(b)
           /\ called' = Call("other", 0, 0)
           /\ UNCHANGED <<ticks, loop, fine_owed, coarse_owed, null_access, high_dir, irq, reader>>
    \/ /\ process_stepper_movement
       /\ called' = Call("other", 0, 0)
       /\ UNCHANGED <<ticks, loop, fine_owed, coarse_owed, null_access, high_dir, irq, reader>>

SpecNull == InitApi /\ [][NextNull]_vars

(***************************************************************************)
(* The pulse waveform: the step generator with targets, periods, stops and *)
(* enables arriving between any two fine ticks.  The observer records the  *)
(* direction output at the tick that drives the step output high, and may  *)
(* open a window of one period at the start of a cycle.                    *)
(***************************************************************************)
\* a period whose half lies above the half of the shortest period
LongPeriod == MIN_STEPPER_PERIOD + 2

PulsePeriodsUs ==
    {TIMER_INTERVAL_US * k : k \in {MIN_STEPPER_PERIOD, MaxPeriod, LongPeriod}}

\* stepper_init accepts every period above 1
InitPulse ==
    \E T \in 2 .. MIN_STEPPER_PERIOD :
        AfterInit(0, T) /\ ~EstopActive(estop_pin)

\* a fine tick, with the observer's record of the pulse under way
PulseTick ==
    /\ process_stepper_movement
    /\ high_dir' = IF step_pin' = 0 THEN -1
                   ELSE IF step_pin = 0 THEN dir_pin'
                   ELSE high_dir
    /\ UNCHANGED <<called, ticks, loop, fine_owed, coarse_owed, null_access,
                   irq, reader>>

NextPulse ==
    \/ PulseTick
    \/ (\E p \in Positions : stepper_set_target_position(p)) /\ UNCHANGED apart
    \/ (\E us \in PulsePeriodsUs : stepper_set_step_period(us))
         /\ UNCHANGED apart
    \/ (\E b \in BOOLEAN : stepper_enable(b)) /\ UNCHANGED apart
    \/ stepper_stop /\ UNCHANGED apart
    \/ (step_timer = 0 /\ StartWindow(stepper.step_period)) /\ UNCHANGED apart

SpecPulse == InitPulse /\ [][NextPulse]_vars

(***************************************************************************)
(* The interlock's hold: polls, with the estop input changing between any  *)
(* two of them, among enables, moves and fine ticks.  The observer records *)
(* with each poll the debounce counter it found and the input level it     *)
(* read.                                                                   *)
(***************************************************************************)
NextHold ==
    \/ /\ process_stepper_estop
       /\ called' = Call("process_stepper_estop", extop_active_count, estop_pin)
       /\ UNCHANGED <<ticks, loop, fine_owed, coarse_owed, null_access,
                      high_dir, irq, reader>>
    \/ /\ \E level \in {0, 1} : EstopInput(level)
       /\ UNCHANGED apart
    \/ /\ \E b \in BOOLEAN : stepper_enable(b)
       /\ called' = Call("other", 0, 0)
       /\ UNCHANGED <<ticks, loop, fine_owed, coarse_owed, null_access,
                      high_dir, irq, reader>>
    \/ /\ \E p \in Positions : stepper_set_target_position(p)
       /\ called' = Call("other", 0, 0)
       /\ UNCHANGED <<ticks, loop, fine_owed, coarse_owed, null_access,
                      high_dir, irq, reader>>
    \/ /\ process_stepper_movement
       /\ called' = Call("other", 0, 0)
       /\ UNCHANGED <<ticks, loop, fine_owed, coarse_owed, null_access,
                      high_dir, irq, reader>>

SpecHold == Init /\ [][NextHold]_vars

(***************************************************************************)
(* The dispatcher alone: the commands of process_command in any order,     *)
(* with fine ticks in between.  The observer records with each command the *)
(* position and the enable flag it found.                                  *)
(***************************************************************************)
Issued(op) ==
    /\ called' = Call(op, stepper.current_position,
                      IF stepper.enabled THEN 1 ELSE 0)
    /\ UNCHANGED <<ticks, loop, fine_owed, coarse_owed, null_access,
                   high_dir, irq, reader>>

NextDispatch ==
    \/ (\E cmd \in PercentArgs : command_claw_set_position(cmd))
         /\ Issued("command_claw_set_position")
    \/ (\E cmd \in PeriodArgs : command_set_stepper_period(cmd))
         /\ Issued("command_set_stepper_period")
    \/ command_set_stepper_zero /\ Issued("command_set_stepper_zero")
    \/ (\E cmd \in AbsoluteArgs : command_move_stepper_absolute(cmd))
         /\ Issued("command_move_stepper_absolute")
    \/ (\E cmd \in RelativeArgs : command_move_stepper_relative(cmd))
         /\ Issued("command_move_stepper_relative")
    \/ (\E cmd \in RotationArgs : command_move_stepper_rotations(cmd))
         /\ Issued("command_move_stepper_rotations")
    \/ command_move_stepper_bump_down
         /\ Issued("command_move_stepper_bump_down")
    \/ command_stop_stepper /\ Issued("command_stop_stepper")
    \/ command_get_stepper_status /\ Issued("command_get_stepper_status")
    \/ command_enable_stepper /\ Issued("command_enable_stepper")
    \/ command_disable_stepper /\ Issued("command_disable_stepper")
    \/ /\ process_stepper_movement
       /\ called' = Call("other", 0, 0)
       /\ UNCHANGED <<ticks, loop, fine_owed, coarse_owed, null_access,
                      high_dir, irq, reader>>

SpecDispatch == InitApi /\ [][NextDispatch]_vars

(***************************************************************************)
(* command_processor.c: the line reader, one call per coarse tick.         *)
(* Characters are their codes; -1 stands for PICO_ERROR_TIMEOUT (nothing   *)
(* to read), 0 for the terminating NUL.                                    *)
(***************************************************************************)
\* iscntrl of ctype.h, in the C locale
iscntrl(c) == c < 32 \/ c = 127

\* faulty variant of ClampIndex: the index is held one place too far up
ClampIndex_late(index) ==
    IF index >= MAX_COMMAND_LENGTH THEN MAX_COMMAND_LENGTH - 1 ELSE index

\* if(cmd_buffer_index >= sizeof(cmd_buffer) - 1)
ClampIndex(index) ==
    IF index >= MAX_COMMAND_LENGTH - 1 THEN MAX_COMMAND_LENGTH - 2 ELSE index

process_stdin_input(character) ==
    /\ IF lock
       THEN /\ result' = "NULL"
            /\ UNCHANGED <<lock, cmd_buffer, cmd_buffer_index>>
       ELSE /\ lock' = FALSE
            /\ IF character = -1
               THEN /\ result' = "NULL"
                    /\ UNCHANGED <<cmd_buffer, cmd_buffer_index>>
               ELSE LET stored == [cmd_buffer EXCEPT
                                      ![cmd_buffer_index] = character]
                    IN  IF character = 10
                        THEN /\ cmd_buffer' =
                                  [stored EXCEPT ![cmd_buffer_index] = 0]
                             /\ cmd_buffer_index' = 0
                             /\ result' = "cmd_buffer"
                        ELSE /\ cmd_buffer' = stored
                             /\ cmd_buffer_index' =
                                  ClampIndex(
                                    IF (character = 8 \/ character = 127)
                                         /\ cmd_buffer_index > 0
                                    THEN cmd_buffer_index - 1
                                    ELSE IF ~iscntrl(character)
                                              /\ character # 8
                                              /\ character # 127
                                    THEN cmd_buffer_index + 1
                                    ELSE cmd_buffer_index)
                             /\ result' = "NULL"
    /\ UNCHANGED <<stepper, generator, interlock, enable_pin, enable_led_pin,
                   estop_pin, ret, history, win, printed, called, ticks,
                   loop, fine_owed, coarse_owed, null_access, high_dir, irq>>

\* newline, backspace, delete, a control character (tab), two printable
\* characters, and nothing to read
InputCharacters == {10, 8, 127, 9, 97, 98, -1}

NextReader == \E character \in InputCharacters : process_stdin_input(character)

SpecReader == Init /\ [][NextReader]_vars

(***************************************************************************)
(* The claims.                                                             *)
(***************************************************************************)
EstopLedOn == estop_led_pin = STEPPER_ESTOP_LED_PIN_ACTIVE_LEVEL

\* C1: while enabled = false, a fine tick neither changes current_position
\* nor drives the step output from low to high.
C1_DisabledTickInert ==
    [][(~stepper.enabled /\ process_stepper_movement)
         => /\ stepper'.current_position = stepper.current_position
            /\ ~(step_pin = 0 /\ step_pin' = 1)]_vars

\* C2: a poll that finds the estop input active while moving = true leaves
\* enabled = false, moving = false, target_position = current_position,
\* current_position unchanged, and returns true (faulted).
C2_ActivePollFreezes ==
    [][(process_stepper_estop /\ EstopActive(estop_pin) /\ stepper.moving)
         => /\ ~stepper'.enabled
            /\ ~stepper'.moving
            /\ stepper'.target_position = stepper'.current_position
            /\ stepper'.current_position = stepper.current_position
            /\ ret' = TRUE]_vars

\* a poll has just tripped a move in the middle of a pulse, away from the
\* ends of the range
C2_Witness ==
    /\ halted = "fault" /\ seen_active /\ inactive_polls = 0 /\ ret = TRUE
    /\ ~stepper.moving /\ ~stepper.enabled
    /\ stepper.target_position = stepper.current_position
    /\ stepper.current_position > MIN_STEPPER_POSITION
    /\ stepper.current_position < MAX_STEPPER_POSITION
    /\ step_timer > 0

\* C3: after a poll has seen the estop input active during motion, no fine
\* tick changes current_position until a set_target or a move command is
\* accepted.
C3_HaltedUntilNewMove ==
    [][(halted # "none" /\ process_stepper_movement)
         => stepper'.current_position = stepper.current_position]_vars

\* fine ticks have run after the fault, the hold has run out and the motor
\* has been enabled again; the entity still rests where the fault found it
C3_Witness ==
    /\ halted = "ticked"
    /\ inactive_polls > STEPPER_ESTOP_DEACTIVATE_DELAY_MS
    /\ stepper.enabled /\ ~stepper.moving
    /\ stepper.current_position > MIN_STEPPER_POSITION
    /\ step_timer = 0

C5_ActiveInputOverrides ==
    [][(seen_active /\ process_stepper_movement)
         => stepper'.current_position = stepper.current_position]_vars

\* C6: MIN_POSITION <= current_position <= MAX_POSITION in every reachable
\* state.
C6_CurrentInRange ==
    /\ MIN_STEPPER_POSITION <= stepper.current_position
    /\ stepper.current_position <= MAX_STEPPER_POSITION

\* C7: while moving, a fine tick never takes current_position further from
\* target_position (monotone approach, no position outside the range
\* between the start and the target).
C7_MonotoneApproach ==
    [][(stepper.moving /\ process_stepper_movement)
         => Distance(stepper') <= Distance(stepper)]_vars

\* C8: pacing_period consecutive fine ticks from a state with moving = true
\* change current_position by exactly one unit: +1 if target_position >
\* current_position at the start of the interval, otherwise -1.
C8_OneStepPerPeriod ==
    (win.n >= 0 /\ win.n = win.period)
        => stepper.current_position =
               win.start + (IF win.target > win.start THEN 1 ELSE -1)

\* a full period of ticks has been observed from a state that was moving
\* backward, and the entity is one unit below where it was
C8_Witness ==
    /\ win.n = win.period /\ win.period >= MIN_STEPPER_PERIOD
    /\ win.target < win.start
    /\ stepper.current_position = win.start - 1
    /\ stepper.moving

\* C9: stepper_init(p0, T), stepper_enable(true), set_target(p1), p1 # p0:
\* after exactly |p1 - p0| * T fine ticks current_position = p1 and
\* moving = false; after any smaller number of ticks moving is still true.
C9_ScenarioArrival ==
    win.n >= 0 =>
        /\ win.limit = win.period * (IF win.target >= win.start
                                     THEN win.target - win.start
                                     ELSE win.start - win.target)
        /\ win.n < win.limit => stepper.moving
        /\ win.n = win.limit =>
               /\ stepper.current_position = win.target
               /\ ~stepper.moving

\* a move over more than one unit has been ticked to its end
C9_Witness ==
    /\ win.n >= 2 * win.period /\ win.n = win.limit
    /\ stepper.current_position = win.target
    /\ win.target # win.start
    /\ ~stepper.moving

\* C10: after a fault, the k-th inactive poll (k <= hold) decrements the
\* debounce counter, keeps the fault indicator active and returns true; the
\* first poll that finds the counter at zero (the hold + 1-th) turns the
\* indicator off and returns false.
C10_DebounceHold ==
    [][(process_stepper_estop /\ ~EstopActive(estop_pin) /\ inactive_polls >= 0)
         => IF inactive_polls < STEPPER_ESTOP_DEACTIVATE_DELAY_MS
            THEN /\ extop_active_count =
                        STEPPER_ESTOP_DEACTIVATE_DELAY_MS - inactive_polls
                 /\ extop_active_count' = extop_active_count - 1
                 /\ estop_led_pin' = STEPPER_ESTOP_LED_PIN_ACTIVE_LEVEL
                 /\ ret' = TRUE
            ELSE /\ extop_active_count = 0
                 /\ extop_active_count' = 0
                 /\ estop_led_pin' # STEPPER_ESTOP_LED_PIN_ACTIVE_LEVEL
                 /\ ret' = FALSE]_vars

\* the fault has been reported cleared by the first poll after the hold
C10_Witness ==
    /\ inactive_polls = STEPPER_ESTOP_DEACTIVATE_DELAY_MS + 1
    /\ extop_active_count = 0
    /\ ~EstopLedOn
    /\ ret = FALSE
    /\ ~seen_active

\* an enable or a move request: stepper_enable(true), set_target, or one of
\* the dispatcher's enable and move commands
RearmRequest ==
    \/ stepper_enable(TRUE)
    \/ \E p \in Positions : stepper_set_target_position(p)
    \/ \E cmd \in PercentArgs : command_claw_set_position(cmd)
    \/ \E cmd \in AbsoluteArgs : command_move_stepper_absolute(cmd)
    \/ \E cmd \in RelativeArgs : command_move_stepper_relative(cmd)
    \/ \E cmd \in RotationArgs : command_move_stepper_rotations(cmd)
    \/ command_move_stepper_bump_down

\* C11: while the estop input is inactive and the debounce counter is
\* nonzero, no enable or move request leaves enabled = true or moving = true.
C11_NoRearmDuringHold ==
    [][(~EstopActive(estop_pin) /\ EstopHold(extop_active_count) /\ RearmRequest)
         => (~stepper'.enabled /\ ~stepper'.moving)]_vars

\* the interlock holds the fault: the input is active or the hold is running
Faulted == EstopActive(estop_pin) \/ EstopHold(extop_active_count)

\* C12: moving is true if and only if current_position # target_position
\* and motion is permitted (enabled and not faulted).
C12_MovingIffPending ==
    stepper.moving <=>
        /\ stepper.current_position # stepper.target_position
        /\ stepper.enabled
        /\ ~Faulted

\* C13: in every reachable state with moving = false,
\* target_position = current_position.
C13_RestingTargetIsCurrent ==
    ~stepper.moving => stepper.target_position = stepper.current_position

\* the step generator has brought the enabled motor to the top of the
\* range and has come to rest there
C13_Witness ==
    /\ ~stepper.moving /\ stepper.enabled
    /\ stepper.current_position = MAX_STEPPER_POSITION
    /\ stepper.target_position = MAX_STEPPER_POSITION
    /\ function_initialized /\ step_timer = 0 /\ step_pin = 0
    /\ dir_pin = STEPPER_DIRECTION_BACKWARD
    /\ halted = "none"

\* C14: MIN_POSITION <= target_position <= MAX_POSITION in every reachable
\* state, also after stop and after an interlock activation have copied
\* current_position into target_position.
C14_TargetInRange ==
    /\ MIN_STEPPER_POSITION <= stepper.target_position
    /\ stepper.target_position <= MAX_STEPPER_POSITION

\* C15: in every state reachable after a successful stepper_init,
\* step_period >= MIN_STEPPER_PERIOD, for every accepted argument of
\* stepper_init and of stepper_set_step_period.
C15_PeriodAtLeastMin == stepper.step_period >= MIN_STEPPER_PERIOD

\* C16: the program starts at position 0, disabled, not moving, with the
\* default period; and for every position in range and every period from
\* MIN_STEPPER_PERIOD up, stepper_init succeeds on any contents and the
\* status then shows current = target = position, that period, moving =
\* false, enabled = false.
C16_InitThenSnapshot ==
    /\ Snapshot(stepper) =
           [current_position |-> 0, target_position |-> 0,
            step_period_us |-> DEFAULT_STEPPER_PERIOD * TIMER_INTERVAL_US,
            moving |-> FALSE, enabled |-> FALSE]
    /\ [][\A p \in MIN_STEPPER_POSITION .. MAX_STEPPER_POSITION :
            \A T \in MIN_STEPPER_PERIOD .. MaxPeriod :
              (stepper_init(p, T) /\ called' = Call("stepper_init", p, T))
                => /\ ret' = TRUE
                   /\ Snapshot(stepper') =
                          [current_position |-> p, target_position |-> p,
                           step_period_us |-> T * TIMER_INTERVAL_US,
                           moving |-> FALSE, enabled |-> FALSE]]_vars

\* stepper_init has succeeded on an entity that was in the middle of a
\* pulse (the step generator's phase counter still holds the ticks)
C16_Witness ==
    /\ called = Call("stepper_init", MAX_STEPPER_POSITION, MaxPeriod)
    /\ ret = TRUE
    /\ stepper = StepperInit(MAX_STEPPER_POSITION, MaxPeriod)
    /\ step_timer > 0

\* C17: stepper_init fails and leaves every entity field unchanged whenever
\* initial_position is outside [MIN_POSITION, MAX_POSITION] or the period is
\* below MIN_STEPPER_PERIOD.
C17_InitRejects ==
    [][\A p \in Positions : \A T \in InitPeriods :
         (/\ stepper_init(p, T) /\ called' = Call("stepper_init", p, T)
          /\ (~PositionInRange(p) \/ T < MIN_STEPPER_PERIOD))
           => (ret' = FALSE /\ stepper' = stepper)]_vars

\* C18: for every p outside [MIN_POSITION, MAX_POSITION], set_target(p)
\* returns failure and leaves the whole entity unchanged, however often it
\* is repeated.
C18_SetTargetRejects ==
    [][\A p \in Positions :
         (/\ stepper_set_target_position(p)
          /\ called' = Call("stepper_set_target_position", p, 0)
          /\ (p < MIN_STEPPER_POSITION \/ p > MAX_STEPPER_POSITION))
           => (ret' = FALSE /\ stepper' = stepper)]_vars

\* set_target(MIN_POSITION - 1) has been rejected in the middle of a move
\* to the top of the range
C18_Witness ==
    /\ called = Call("stepper_set_target_position", MIN_STEPPER_POSITION - 1, 0)
    /\ ret = FALSE
    /\ stepper.moving /\ stepper.enabled
    /\ stepper.target_position = MAX_STEPPER_POSITION
    /\ stepper.current_position < MAX_STEPPER_POSITION
    /\ step_timer > 0

\* C19: for every p in [MIN_POSITION, MAX_POSITION], set_target(p) succeeds,
\* sets target_position = p and moving = true, also when p equals
\* current_position, and leaves current_position, step_period and enabled
\* unchanged.
C19_SetTargetAccepts ==
    [][\A p \in MIN_STEPPER_POSITION .. MAX_STEPPER_POSITION :
         (/\ stepper_set_target_position(p)
          /\ called' = Call("stepper_set_target_position", p, 0))
           => /\ ret' = TRUE
              /\ stepper'.target_position = p
              /\ stepper'.moving
              /\ stepper'.current_position = stepper.current_position
              /\ stepper'.step_period = stepper.step_period
              /\ stepper'.enabled = stepper.enabled]_vars

\* set_target has been accepted with the position the entity rests at,
\* away from the start-up position, and has set the motion flag
C19_Witness ==
    /\ called = Call("stepper_set_target_position", stepper.current_position, 0)
    /\ ret = TRUE
    /\ stepper.moving
    /\ stepper.target_position = stepper.current_position
    /\ stepper.current_position > MIN_STEPPER_POSITION
    /\ step_timer = 0

\* C20: stepper_set_step_period, called directly or by
\* command_set_stepper_period, fails and leaves the entity unchanged when
\* the request is below MIN_STEPPER_PERIOD * TIMER_INTERVAL_US microseconds;
\* otherwise it sets step_period to the request divided by
\* TIMER_INTERVAL_US (integer division) and changes no other field.
C20_SetPeriodFrame ==
    [][LET Effect(us) ==
               IF us < MIN_STEPPER_PERIOD * TIMER_INTERVAL_US
               THEN ret' = FALSE /\ stepper' = stepper
               ELSE /\ ret' = TRUE
                    /\ stepper' = [stepper EXCEPT
                                      !.step_period = us \div TIMER_INTERVAL_US]
       IN  /\ \A us \in PeriodsUs :
                (called' = Call("stepper_set_step_period", us, 0)
                   /\ stepper_set_step_period(us)) => Effect(us)
           /\ called'.op = "command_set_stepper_period" =>
                \A cmd \in PeriodArgs :
                    (called'.a = atoi(cmd) /\ command_set_stepper_period(cmd))
                       => Effect(atoi(cmd))]_vars

\* a request that is no multiple of the tick has been accepted in the
\* middle of a pulse of a move, and has shortened the period
C20_Witness ==
    /\ called = Call("stepper_set_step_period",
                     MIN_STEPPER_PERIOD * TIMER_INTERVAL_US + 5, 0)
    /\ ret = TRUE
    /\ stepper.step_period = MIN_STEPPER_PERIOD
    /\ step_timer = MIN_STEPPER_PERIOD
    /\ stepper.moving /\ stepper.enabled
    /\ stepper.target_position # stepper.current_position

\* the level that shows `on` on the enable indicator
EnableLedLevel(on) ==
    IF on THEN STEPPER_ENABLE_LED_PIN_ACTIVE_LEVEL
    ELSE Xor(STEPPER_ENABLE_LED_PIN_ACTIVE_LEVEL, 1)

\* C21: stop, called directly or by the stop_stepper command, succeeds in
\* every state, sets target_position = current_position and moving = false,
\* leaves current_position, step_period and enabled unchanged, and changes
\* nothing when the entity is already stopped.
C21_StopEffect ==
    [][(stepper_stop \/ command_stop_stepper)
         => /\ ret' = TRUE
            /\ stepper' = [stepper EXCEPT
                              !.target_position = stepper.current_position,
                              !.moving = FALSE]
            /\ (~stepper.moving
                  /\ stepper.target_position = stepper.current_position)
                 => stepper' = stepper]_vars

\* an enabled move has been stopped in the second half of a pulse, above
\* the bottom of the range, with no fault involved
C21_Witness ==
    /\ ~stepper.moving /\ stepper.enabled /\ ret = TRUE
    /\ stepper.target_position = stepper.current_position
    /\ stepper.current_position > MIN_STEPPER_POSITION
    /\ step_timer > 0 /\ step_pin = 1
    /\ halted = "none"

\* C22: after stepper_init the entity is disabled and the enable indicator
\* shows it; after stepper_enable(b), enabled = b, the enable output is at
\* the level b XOR the inversion, the enable indicator shows b, and position,
\* target, period and moving are unchanged.
C22_EnableConsistent ==
    /\ (~stepper.enabled /\ enable_led_pin = EnableLedLevel(FALSE))
    /\ [][\A b \in BOOLEAN :
            stepper_enable(b)
              => /\ stepper' = [stepper EXCEPT !.enabled = b]
                 /\ enable_pin' = Xor(IF b THEN 1 ELSE 0,
                                      STEPPER_ENABLE_PIN_INVERTED)
                 /\ enable_led_pin' = EnableLedLevel(b)]_vars

\* C23: whenever the main loop is not in the middle of a unit of work, the
\* fine ticks generated and not yet worked off equal the fine counter, and
\* likewise for the coarse ticks (in the middle of a unit, the counter is
\* one behind).
C23_BacklogKept ==
    /\ fine_owed = ten_us_ticks_count + (IF pc = "us_work" THEN 1 ELSE 0)
    /\ coarse_owed = ms_ticks_count + (IF pc = "ms_work" THEN 1 ELSE 0)

\* C24: the work of every coarse tick drained polls the interlock (an
\* active input disables the motor, lights the fault indicator and reloads
\* the hold) and leaves the enable indicator equal to enabled; the work of
\* every fine tick drained invokes the step generator.
C24_TickWork ==
    [][/\ MsWork =>
            /\ enable_led_pin' = EnableLedLevel(stepper'.enabled)
            /\ EstopActive(estop_pin) =>
                   /\ ~stepper'.enabled
                   /\ estop_led_pin' = STEPPER_ESTOP_LED_PIN_ACTIVE_LEVEL
                   /\ extop_active_count' = STEPPER_ESTOP_DEACTIVATE_DELAY_MS
       /\ UsWork => function_initialized']_vars

\* C25: the timer interrupt leaves every entity field and every output
\* unchanged, and the entity changes only in the main loop's units of work.
C25_InterruptFrame ==
    [][/\ timer_callback =>
            UNCHANGED <<stepper, step_pin, dir_pin, enable_pin,
                        enable_led_pin, estop_led_pin, step_timer,
                        extop_active_count>>
       /\ stepper' # stepper => pc \in {"ms_work", "us_work"}]_vars

\* the interrupt has fired between the load and the store of the fine
\* counter's decrement, in the middle of a pulse of a move
C25_Witness ==
    /\ pc = "us_store" /\ ten_us_ticks_count > reg
    /\ ms_ticks_count > 0
    /\ stepper.moving /\ step_pin = 1
    /\ stepper.current_position > MIN_STEPPER_POSITION

\* C26: the status report leaves every entity field, the phase counter and
\* the debounce counter unchanged, and prints the period in microseconds
\* (step_period * TIMER_INTERVAL_US).
C26_SnapshotReadOnly ==
    [][command_get_stepper_status
         => /\ UNCHANGED <<stepper, step_timer, extop_active_count>>
            /\ printed' =
                 <<[current_position |-> stepper.current_position,
                    target_position  |-> stepper.target_position,
                    step_period_us   |-> stepper.step_period * TIMER_INTERVAL_US,
                    moving           |-> stepper.moving,
                    enabled          |-> stepper.enabled]>>]_vars

\* the status has been printed in the middle of a pulse of a move at the
\* longest period, while the hold of the interlock was running
C26_Witness ==
    /\ printed # <<>>
    /\ printed[1].step_period_us = MaxPeriod * TIMER_INTERVAL_US
    /\ printed[1].moving
    /\ stepper.moving /\ stepper.step_period = MaxPeriod
    /\ step_timer > 0
    /\ extop_active_count > 0

\* the text is a number: an optional sign, digits, at most one point
IsNumber(text) ==
    LET body == IF text # <<>> /\ Head(text) \in {"-", "+"}
                THEN Tail(text) ELSE text
    IN  /\ \E i \in 1 .. Len(body) : IsDigit(body[i])
        /\ \A i \in 1 .. Len(body) : IsDigit(body[i]) \/ body[i] = "."
        /\ Cardinality({i \in 1 .. Len(body) : body[i] = "."}) <= 1

\* C27: a move command whose argument is no number, or is out of range,
\* returns failure and leaves the entity unchanged.
C27_MalformedRejected ==
    [][/\ \A cmd \in AbsoluteArgs :
            (command_move_stepper_absolute(cmd)
               /\ (~IsNumber(cmd) \/ ~PositionInRange(atoi(cmd))))
              => (ret' = FALSE /\ stepper' = stepper)
       /\ \A cmd \in RelativeArgs :
            (command_move_stepper_relative(cmd)
               /\ (~IsNumber(cmd)
                     \/ ~PositionInRange(stepper.current_position + atoi(cmd))))
              => (ret' = FALSE /\ stepper' = stepper)
       /\ \A cmd \in PercentArgs :
            (command_claw_set_position(cmd)
               /\ (~IsNumber(cmd) \/ atof10(cmd) < 0 \/ atof10(cmd) > 1000))
              => (ret' = FALSE /\ stepper' = stepper)]_vars

\* C28: a call with a null entity reference returns failure and has not
\* read or written through the reference.
C28_NullSignalled ==
    [][\A op \in NullOps :
         null_call(op) => (ret' = FALSE /\ ~null_access')]_vars

\* C29: a call of the step generator with moving = false drives the step
\* output low and resets the phase counter; and in the running system the
\* work of a fine tick drained while moving = false leaves the step output
\* low and the phase counter 0.
C29_IdleTickResets ==
    [][/\ (process_stepper_movement /\ ~stepper.moving)
            => (step_pin' = 0 /\ step_timer' = 0)
       /\ (UsWork /\ ~stepper.moving)
            => (step_pin' = 0 /\ step_timer' = 0)]_vars

\* C30: the work of every fine tick drained, moving or not, leaves the
\* direction output Forward if target_position > current_position at the
\* tick, and Backward otherwise.
C30_DirectionRefreshed ==
    [][UsWork => dir_pin' = Direction(stepper)]_vars

\* C31: every change of current_position made by the step generator is by
\* one unit and happens on a tick that drives the step output low after the
\* output was driven high earlier in the same cycle, also when
\* stepper_set_step_period shortens the period in the middle of a cycle.
C31_StepEndsPulse ==
    [][(process_stepper_movement
          /\ stepper'.current_position # stepper.current_position)
         => /\ step_pin = 1 /\ step_pin' = 0
            /\ stepper'.current_position - stepper.current_position
                 \in {-1, 1}]_vars

\* C32 (as stated): over a cycle at a constant period P, started with the
\* phase counter at 0, the step output is low for P/2 ticks and then high
\* for P/2 ticks (integer division), the phase counter counts the ticks,
\* and the P-th tick ends the cycle with a step.
C32_SymmetricPulse ==
    win.n >= 0 =>
        LET P == win.period
            half == P \div 2
        IN  /\ step_pin = (IF half <= win.n /\ win.n < half + half
                           THEN 1 ELSE 0)
            /\ win.n < P => /\ step_timer = win.n
                            /\ stepper.current_position = win.start
            /\ win.n = P => /\ step_timer = 0
                            /\ stepper.current_position # win.start

\* C32 (amended): over a cycle at a constant period P, started with the
\* phase counter at 0, the step output is driven high by the tick that
\* brings the phase counter to P/2 and low by the tick that brings it to P:
\* it is low for P/2 ticks and high for P - P/2 ticks (one tick longer when
\* P is odd), and the cycle is exactly P ticks, with one step at its end.
C32_PulseShape ==
    win.n >= 0 =>
        LET P == win.period
            half == P \div 2
        IN  /\ step_pin = (IF half <= win.n /\ win.n < P THEN 1 ELSE 0)
            /\ win.n < P => /\ step_timer = win.n
                            /\ stepper.current_position = win.start
                            /\ stepper.moving
            /\ win.n = P => /\ step_timer = 0
                            /\ stepper.current_position # win.start

\* the last tick but one of a cycle at an odd period above the minimum: the
\* output has been high for P/2 ticks and is still high
C32_Witness ==
    /\ win.n = win.period - 1
    /\ win.period % 2 = 1 /\ win.period > MIN_STEPPER_PERIOD
    /\ step_pin = 1 /\ step_timer = win.n
    /\ stepper.moving /\ stepper.enabled
    /\ stepper.current_position = win.start

\* C33: every poll that reads the estop input active reloads the debounce
\* counter to the full hold and reports the fault, also when the hold was
\* already running down; and a poll reports the fault cleared only after at
\* least hold-duration consecutive inactive polls before it.
C33_HoldRestarts ==
    [][process_stepper_estop
         => /\ EstopActive(estop_pin)
                 => /\ extop_active_count' = STEPPER_ESTOP_DEACTIVATE_DELAY_MS
                    /\ ret' = TRUE
            /\ (~EstopActive(estop_pin) /\ inactive_polls >= 0 /\ ret' = FALSE)
                 => inactive_polls >= STEPPER_ESTOP_DEACTIVATE_DELAY_MS]_vars

\* a poll has read the input active in the middle of a hold that had partly
\* run down, and has reloaded the counter to the full hold
C33_Witness ==
    /\ called.op = "process_stepper_estop"
    /\ called.a > 0 /\ called.a < STEPPER_ESTOP_DEACTIVATE_DELAY_MS
    /\ EstopActive(called.b)
    /\ extop_active_count = STEPPER_ESTOP_DEACTIVATE_DELAY_MS
    /\ inactive_polls = 0
    /\ EstopLedOn /\ ret = TRUE

\* C34: the timer interrupt increments the fine counter on every interrupt
\* and the coarse counter on exactly every TICKS_PER_MS-th one, so after n
\* interrupts the coarse ticks generated are floor(n / TICKS_PER_MS); and
\* neither counter ever grows but by an interrupt.
C34_CoarseEveryNth ==
    /\ [](/\ irq.ms = irq.n \div TICKS_PER_MS
          /\ us_count = irq.n % TICKS_PER_MS)
    /\ [][/\ timer_callback
               => ten_us_ticks_count' = ten_us_ticks_count + 1
          /\ (ten_us_ticks_count' > ten_us_ticks_count
                \/ ms_ticks_count' > ms_ticks_count) => timer_callback]_vars

\* two coarse periods of interrupts and one more have been taken while the
\* main loop was draining: both coarse ticks were generated, and the main
\* loop has worked at least one of them off
C34_Witness ==
    /\ irq.n = 2 * TICKS_PER_MS + 1 /\ irq.ms = 2
    /\ us_count = 1
    /\ ms_ticks_count < irq.ms
    /\ ten_us_ticks_count < irq.n /\ ten_us_ticks_count > 0

\* C35: an iteration of the main loop takes at most one off the coarse
\* counter and at most one off the fine counter, and never decrements a
\* counter that is zero (no counter is ever negative); it executes at most
\* one unit of coarse work and at most one unit of fine work.
C35_OnePerIteration ==
    /\ [](ms_ticks_count >= 0 /\ ten_us_ticks_count >= 0)
    /\ [][/\ MsStore => /\ ms_ticks_count > 0
                        /\ ms_ticks_count' >= ms_ticks_count - 1
          /\ UsStore => /\ ten_us_ticks_count > 0
                        /\ ten_us_ticks_count' >= ten_us_ticks_count - 1
          /\ coarse_owed' # coarse_owed /\ ~timer_callback
               => (pc = "ms_work" /\ pc' = "us_test"
                     /\ coarse_owed' = coarse_owed - 1)
          /\ fine_owed' # fine_owed /\ ~timer_callback
               => (pc = "us_work" /\ pc' = "ms_test"
                     /\ fine_owed' = fine_owed - 1)]_vars

\* the part of C35 that the code keeps: no counter is decremented at zero,
\* and an iteration executes at most one unit of work per counter
C35_NeverBelowZero ==
    /\ [](ms_ticks_count >= 0 /\ ten_us_ticks_count >= 0)
    /\ [][/\ MsStore => ms_ticks_count > 0
          /\ UsStore => ten_us_ticks_count > 0
          /\ coarse_owed' # coarse_owed /\ ~timer_callback
               => (pc = "ms_work" /\ pc' = "us_test"
                     /\ coarse_owed' = coarse_owed - 1)
          /\ fine_owed' # fine_owed /\ ~timer_callback
               => (pc = "us_work" /\ pc' = "ms_test"
                     /\ fine_owed' = fine_owed - 1)]_vars

\* C36: the bump-down command on an enabled entity never rejects: if
\* current_position > STEPPER_BUMP_STEPS it sets target_position =
\* current_position - STEPPER_BUMP_STEPS, otherwise it relocates
\* current_position to STEPPER_BUMP_STEPS and sets target_position = 0; in
\* both cases moving = true, and the resulting target is in range and
\* STEPPER_BUMP_STEPS below the resulting position.
C36_BumpDown ==
    [][(command_move_stepper_bump_down /\ stepper.enabled)
         => /\ ret' = TRUE
            /\ stepper' =
                 IF stepper.current_position > STEPPER_BUMP_STEPS
                 THEN [stepper EXCEPT
                          !.target_position =
                              stepper.current_position - STEPPER_BUMP_STEPS,
                          !.moving = TRUE]
                 ELSE [stepper EXCEPT
                          !.current_position = STEPPER_BUMP_STEPS,
                          !.target_position = 0,
                          !.moving = TRUE]
            /\ MIN_STEPPER_POSITION <= stepper'.target_position
            /\ stepper'.target_position <= MAX_STEPPER_POSITION
            /\ stepper'.target_position =
                 stepper'.current_position - STEPPER_BUMP_STEPS]_vars

\* bump-down was issued at the bottom of the range in the middle of a pulse
\* and has relocated the position
C36_Witness ==
    /\ called.op = "command_move_stepper_bump_down"
    /\ called.a = MIN_STEPPER_POSITION /\ called.b = 1
    /\ ret = TRUE
    /\ stepper.current_position = STEPPER_BUMP_STEPS
    /\ stepper.target_position = 0
    /\ stepper.moving /\ stepper.enabled
    /\ step_timer > 0

\* the dispatcher's motion commands
MotionCommands ==
    {"command_claw_set_position", "command_move_stepper_absolute",
     "command_move_stepper_relative", "command_move_stepper_rotations",
     "command_move_stepper_bump_down"}

\* C37: every motion command of the dispatcher issued while enabled = false
\* returns failure and leaves every entity field unchanged, so through the
\* dispatcher moving only becomes true while enabled = true.
C37_DisabledMotionRejected ==
    [][/\ (called'.op \in MotionCommands /\ ~stepper.enabled)
            => (ret' = FALSE /\ stepper' = stepper)
       /\ (~stepper.moving /\ stepper'.moving) => stepper.enabled]_vars

\* a relative move with a target in range was rejected on a motor disabled
\* in the middle of a move, which is left as it was
C37_Witness ==
    /\ called.op = "command_move_stepper_relative" /\ called.b = 0
    /\ ret = FALSE
    /\ ~stepper.enabled /\ stepper.moving
    /\ stepper.current_position = called.a
    /\ stepper.current_position = MIN_STEPPER_POSITION + 1
    /\ stepper.target_position = MAX_STEPPER_POSITION - 1
    /\ step_timer > 0

\* C38: for every completed pulse cycle, the direction output at the tick
\* that drove the step output high equals the direction in which
\* current_position changes at the end of the cycle, also when
\* stepper_set_target_position reverses the direction in the middle of the
\* cycle.
C38_DirectionOfPulse ==
    [][(PulseTick /\ high_dir # -1
          /\ stepper'.current_position # stepper.current_position)
         => stepper'.current_position - stepper.current_position =
              (IF high_dir = STEPPER_DIRECTION_FORWARD THEN 1 ELSE -1)]_vars

\* the part of C38 that the code keeps: the position changes in the
\* direction the direction output shows at the tick of the change
C38_DirectionAtStep ==
    [][(PulseTick /\ stepper'.current_position # stepper.current_position)
         => stepper'.current_position - stepper.current_position =
              (IF dir_pin' = STEPPER_DIRECTION_FORWARD THEN 1 ELSE -1)]_vars

\* C39: the set_stepper_zero command, in any state, enabled or not, moving
\* or not, succeeds and sets current_position = 0, target_position = 0 and
\* moving = false, leaving step_period and enabled unchanged; a fine tick
\* after it does not change current_position.
C39_ZeroEffect ==
    [][/\ command_set_stepper_zero
            => /\ ret' = TRUE
               /\ stepper' = [current_position |-> 0,
                              target_position  |-> 0,
                              step_period      |-> stepper.step_period,
                              moving           |-> FALSE,
                              enabled          |-> stepper.enabled]
       /\ (called.op = "command_set_stepper_zero" /\ process_stepper_movement)
            => stepper'.current_position = stepper.current_position]_vars

\* the position was set to zero one tick before the end of a pulse of an
\* enabled move away from the bottom of the range
C39_Witness ==
    /\ called.op = "command_set_stepper_zero"
    /\ called.a > MIN_STEPPER_POSITION /\ called.b = 1
    /\ ret = TRUE
    /\ stepper.current_position = 0 /\ stepper.target_position = 0
    /\ ~stepper.moving /\ stepper.enabled
    /\ step_timer = stepper.step_period - 1 /\ step_pin = 1

\* C40: after any sequence of input characters the line reader's buffer
\* index is between 0 and MAX_COMMAND_LENGTH - 2 at the start of every call,
\* so the character store and the terminating NUL land inside the buffer;
\* and the index is 0 after each returned command, whose text ends at the
\* NUL written where the index stood.
C40_IndexInBuffer ==
    /\ [](/\ 0 <= cmd_buffer_index
          /\ cmd_buffer_index <= MAX_COMMAND_LENGTH - 2
          /\ DOMAIN cmd_buffer = 0 .. MAX_COMMAND_LENGTH - 1)
    /\ [][/\ result' = "cmd_buffer"
               => (cmd_buffer_index' = 0 /\ cmd_buffer'[cmd_buffer_index] = 0)
          /\ \A i \in DOMAIN cmd_buffer :
               cmd_buffer'[i] # cmd_buffer[i] => i = cmd_buffer_index]_vars

\* the buffer is full of printable characters: the last one was stored at
\* MAX_COMMAND_LENGTH - 2 and the index was held there
C40_Witness ==
    /\ cmd_buffer_index = MAX_COMMAND_LENGTH - 2
    /\ \A i \in 0 .. MAX_COMMAND_LENGTH - 2 : ~iscntrl(cmd_buffer[i])
    /\ result = "NULL"

====
